---- MODULE Spec2Model ----
(***************************************************************************)
(* State-machine model of srl_transformers/models.py: the lemma->frames    *)
(* table loaded by read_dictionary, and the SrlTransformers operations     *)
(* forward, decode_frames, make_output_human_readable and get_metrics.     *)
(*                                                                         *)
(* Text is modelled as sequences of one-character strings, a token is the  *)
(* sequence of its characters, a Python dict is a function whose DOMAIN is *)
(* its key set, a Python list is a sequence, and a call that raises is a   *)
(* record whose field "raised" names the exception.  Python positions are  *)
(* 0-based: position p of a list is element p + 1 of the sequence.         *)
(***************************************************************************)
EXTENDS Integers, Sequences, FiniteSets, TLC

VARIABLES
    resource,            \* content of the file at LEMMA_FRAME_PATH, a sequence of lines
    rd,                  \* what the call read_dictionary(LEMMA_FRAME_PATH) returned
    lemm_frame_dict,     \* self.lemm_frame_dict
    ignore_span_metric,  \* self.ignore_span_metric
    span_metric,         \* self.span_metric: "None" or "SrlEvalScorer"
    training,            \* self.training
    span_invoked,        \* whether self.span_metric(...) has been invoked so far
    batch,               \* the batch fed to forward: its lemmas and frame probabilities
    output_dict,         \* the output dictionary the caller holds (empty: none)
    ret                  \* the last call: its name, its exception, what it returned

vars == <<resource, rd, lemm_frame_dict, ignore_span_metric, span_metric, training,
          span_invoked, batch, output_dict, ret>>

\* ------------------------------------------------------------------ bounds

MaxLineLen == 4
MaxLines == 2
MaxPreds == 2

\* ------------------------------------------------------- text and dicts

Chars == {"a", " "}

Whitespace == {" ", "\t", "\n"}

EmptyDict == <<>>

\* d with d[k] set to v (d[k] = v on a dict)
dict_set(d, k, v) == [x \in DOMAIN d \cup {k} |-> IF x = k THEN v ELSE d[x]]

\* str.split() with no separator: the maximal runs of non-whitespace characters
RECURSIVE split_from(_, _, _, _)
split_from(l, i, cur, acc) ==
    IF i > Len(l)
    THEN IF cur = <<>> THEN acc ELSE Append(acc, cur)
    ELSE IF l[i] \in Whitespace
         THEN split_from(l, i + 1, <<>>, IF cur = <<>> THEN acc ELSE Append(acc, cur))
         ELSE split_from(l, i + 1, Append(cur, l[i]), acc)

str_split(l) == split_from(l, 1, <<>>, <<>>)

\* k, *v = tokens: needs at least one token
unpack_star(tokens) ==
    IF tokens = <<>>
    THEN [raised |-> "ValueError", k |-> <<>>, v |-> <<>>]
    ELSE [raised |-> "none", k |-> Head(tokens), v |-> Tail(tokens)]

\* dictionary[k] += v on a defaultdict(list): a missing key starts from []
dict_iadd_overwrite(dictionary, k, v) == dict_set(dictionary, k, v)

dict_iadd(dictionary, k, v) ==
    dict_set(dictionary, k, (IF k \in DOMAIN dictionary THEN dictionary[k] ELSE <<>>) \o v)

\* the loop of read_dictionary from line i on
RECURSIVE read_lines(_, _, _)
read_lines(file, i, dictionary) ==
    IF i > Len(file)
    THEN [raised |-> "none", dict |-> dictionary]
    ELSE LET kv == unpack_star(str_split(file[i]))
         IN  IF kv.raised # "none"
             THEN [raised |-> kv.raised, dict |-> EmptyDict]
             ELSE read_lines(file, i + 1, dict_iadd(dictionary, kv.k, kv.v))

read_dictionary(file) == read_lines(file, 1, EmptyDict)

\* ------------------------------------------------- read_dictionary inputs

SeqsUpTo(S, n) == UNION {[1..m -> S] : m \in 0..n}

Lines == SeqsUpTo(Chars, MaxLineLen)

Files == SeqsUpTo(Lines, MaxLines)

NotCalled == [raised |-> "pending", dict |-> EmptyDict]

\* --------------------------------------------------------------- vocabulary

\* the "frames_labels" namespace of self.vocab: position p holds the token of index p
frames_labels == << <<"M">>, <<"L">> >>

\* self.vocab.get_token_index(token, namespace="frames_labels"); the namespace
\* has no OOV token, so an unknown token raises
get_token_index(token) ==
    IF \E p \in DOMAIN frames_labels : frames_labels[p] = token
    THEN [raised |-> "none",
          value |-> (CHOOSE p \in DOMAIN frames_labels : frames_labels[p] = token) - 1]
    ELSE [raised |-> "KeyError", value |-> -1]

\* self.vocab.get_token_from_index(f, namespace="frames_labels")
get_token_from_index(f) ==
    IF f + 1 \in DOMAIN frames_labels
    THEN [raised |-> "none", value |-> frames_labels[f + 1]]
    ELSE [raised |-> "KeyError", value |-> <<>>]

\* ------------------------------------------------------------------- numpy

Min(a, b) == IF a <= b THEN a ELSE b

\* np.take(fp, cl) for an integer cl: the 0-d array holding fp[cl]
np_take(fp, cl) == <<fp[cl + 1]>>

\* ndarray.size
np_size(a) == Len(a)

\* position of the first maximum of a non-empty array
first_max(a) ==
    (CHOOSE p \in DOMAIN a :
        /\ \A q \in DOMAIN a : a[q] <= a[p]
        /\ \A q \in DOMAIN a : q < p => a[q] < a[p]) - 1

\* ndarray.argmax(<keyword>=-1): numpy's argmax takes axis, out and keepdims;
\* any other keyword is a TypeError
ndarray_argmax(a, keyword) ==
    IF keyword \in {"axis"}
    THEN [raised |-> "none", value |-> first_max(a)]
    ELSE [raised |-> "TypeError", value |-> -1]

\* ----------------------------------------------------------- decode_frames

\* d[k] on a defaultdict(list): a missing key is inserted with []
dict_getitem_default(d, k, default) ==
    [value |-> IF k \in DOMAIN d THEN d[k] ELSE <<>>,
     dict |-> IF k \in DOMAIN d THEN d ELSE dict_set(d, k, <<>>)]

\* d.get(k, default): the value under k, or default; d is left as it is
dict_get(d, k, default) ==
    [value |-> IF k \in DOMAIN d THEN d[k] ELSE default, dict |-> d]

\* [self.lemm_frame_dict.get(l, []) for l in lemmas], from lemma i on
RECURSIVE candidate_labels_from(_, _, _, _)
candidate_labels_from(d, lemmas, i, acc) ==
    IF i > Len(lemmas)
    THEN [labels |-> acc, dict |-> d]
    ELSE LET g == dict_get(d, lemmas[i], <<>>)
         IN  candidate_labels_from(g.dict, lemmas, i + 1, Append(acc, g.value))

\* "for cl in candidate_labels for l in cl": one flat list of labels
RECURSIVE flat_labels(_)
flat_labels(candidate_labels) ==
    IF candidate_labels = <<>>
    THEN <<>>
    ELSE Head(candidate_labels) \o flat_labels(Tail(candidate_labels))

\* candidate_labels_ids: the vocabulary index of every label of the flat list
candidate_labels_ids_of(candidate_labels) ==
    LET flat == flat_labels(candidate_labels)
        ids == [p \in DOMAIN flat |-> get_token_index(flat[p])]
    IN  IF \E p \in DOMAIN flat : ids[p].raised # "none"
        THEN [raised |-> "KeyError", ids |-> <<>>]
        ELSE [raised |-> "none", ids |-> [p \in DOMAIN flat |-> ids[p].value]]

\* the loop over zip(candidate_labels_ids, frame_probabilities), from pair i on
RECURSIVE frame_predictions_from(_, _, _, _)
frame_predictions_from(ids, rows, i, acc) ==
    IF i > Min(Len(ids), Len(rows))
    THEN [raised |-> "none", preds |-> acc]
    ELSE LET cl == ids[i]
             fp == rows[i]
             fp_candidates == np_take(fp, cl)
             am == IF np_size(fp_candidates) > 0
                   THEN ndarray_argmax(fp_candidates, "dim")
                   ELSE ndarray_argmax(fp, "dim")
         IN  IF am.raised # "none"
             THEN [raised |-> am.raised, preds |-> <<>>]
             ELSE frame_predictions_from(ids, rows, i + 1, Append(acc, am.value))

\* decode_frames(output_dict) on a model whose table is d: the exception if
\* any, the output dictionary afterwards (mutated in place) and the table
decode_frames(d, od) ==
    LET frame_probabilities == od["frame_probabilities"]
        cand == candidate_labels_from(d, od["lemmas"], 1, <<>>)
        cids == candidate_labels_ids_of(cand.labels)
        fps == frame_predictions_from(cids.ids, frame_probabilities, 1, <<>>)
        toks == [p \in DOMAIN fps.preds |-> get_token_from_index(fps.preds[p])]
    IN  IF cids.raised # "none"
        THEN [raised |-> cids.raised, output_dict |-> od, dict |-> cand.dict]
        ELSE IF fps.raised # "none"
        THEN [raised |-> fps.raised, output_dict |-> od, dict |-> cand.dict]
        ELSE IF \E p \in DOMAIN toks : toks[p].raised # "none"
        THEN [raised |-> "KeyError", output_dict |-> od, dict |-> cand.dict]
        ELSE [raised |-> "none",
              output_dict |-> dict_set(od, "frame_tags",
                                       [p \in DOMAIN toks |-> toks[p].value]),
              dict |-> cand.dict]

\* SrlBert.make_output_human_readable: adds the decoded role tags
super_make_output_human_readable(od) ==
    dict_set(dict_set(od, "wordpiece_tags", "list"), "tags", "list")

\* make_output_human_readable(output_dict)
make_output_human_readable(d, od) ==
    decode_frames(d, super_make_output_human_readable(od))

\* ----------------------------------------------------------------- forward

\* d without the key k (dict.pop(k) on a dict that has it)
dict_pop(d, k) == [x \in DOMAIN d \ {k} |-> d[x]]

\* the output dictionary forward builds before the losses
base_output_dict(b) ==
    [logits |-> "tensor", frame_logits |-> "tensor", class_probabilities |-> "tensor",
     frame_probabilities |-> b.frame_probabilities, mask |-> "tensor",
     words |-> "list", lemmas |-> b.lemmas, verb |-> "list",
     wordpiece_offsets |-> "list"]

\* (role_loss + frame_loss) / 2; losses are counted in half units, so the
\* sums that occur are even and the division is exact
joint_loss(role_loss, frame_loss) == (role_loss + frame_loss) \div 2

\* the condition under which forward scores the spans
scores_spans(ignore, scorer, train) == ~ignore /\ scorer # "None" /\ ~train

\* forward(...): tags and frame_tags are "None" or "given"; role_loss and
\* frame_loss are what the two loss functions return.  The accumulators of
\* the two metric objects belong to the framework: what they hold shows only
\* in what get_metric reports, which GetMetrics draws.
forward(d, ignore, scorer, train, invoked, b, tags, frame_tags, role_loss, frame_loss) ==
    LET od0 == base_output_dict(b)
        hr == make_output_human_readable(d, od0)
        od1 == IF scores_spans(ignore, scorer, train)
               THEN dict_pop(hr.output_dict, "tags")
               ELSE od0
        withloss == dict_set(dict_set(dict_set(od1, "frame_loss", frame_loss),
                                      "role_loss", role_loss),
                             "loss", joint_loss(role_loss, frame_loss))
    IN  IF tags = "None"
        THEN [raised |-> "none", output_dict |-> od0, dict |-> d, invoked |-> invoked]
        ELSE IF frame_tags = "None"
        THEN [raised |-> "TypeError", output_dict |-> EmptyDict, dict |-> d,
              invoked |-> invoked]
        ELSE IF scores_spans(ignore, scorer, train) /\ hr.raised # "none"
        THEN [raised |-> hr.raised, output_dict |-> EmptyDict, dict |-> hr.dict,
              invoked |-> invoked]
        ELSE [raised |-> "none", output_dict |-> withloss,
              dict |-> IF scores_spans(ignore, scorer, train) THEN hr.dict ELSE d,
              invoked |-> invoked \/ scores_spans(ignore, scorer, train)]

\* ------------------------------------------------------------- get_metrics

\* A metric name is the sequence of its "-"-separated parts, so that
\* x.split("-")[0] is Head(x); a returned key is <<parts, suffix>>, the name
\* made of the parts with the suffix appended.

RoleTags == {<<"ARGM", "TMP">>}

\* the three entries SrlEvalScorer reports for a tag (or for "overall")
scorer_entries(tag) ==
    << <<"precision">> \o tag, <<"recall">> \o tag, <<"f1", "measure">> \o tag >>

RECURSIVE scorer_names(_)
scorer_names(tags) ==
    IF tags = {}
    THEN scorer_entries(<<"overall">>)
    ELSE LET t == CHOOSE t \in tags : TRUE
         IN  scorer_entries(t) \o scorer_names(tags \ {t})

\* self.span_metric.get_metric(reset): (name, value) items in dict order, for
\* a scorer that has seen the role tags `tags`
span_get_metric(tags) ==
    LET names == scorer_names(tags)
    IN  [p \in DOMAIN names |-> [name |-> names[p], value |-> p]]

\* self.f1_frame_metric.get_metric(reset) of FBetaMeasure(average="micro")
frame_get_metric ==
    << [name |-> <<"precision">>, value |-> 11], [name |-> <<"recall">>, value |-> 12],
       [name |-> <<"fscore">>, value |-> 13] >>

\* "overall" in x
contains_overall(x) == \E p \in DOMAIN x : x[p] = "overall"

\* {key(i): value(i) for i in items if keep(i)}: a later item overwrites an
\* earlier one with the same key; keyed is the sequence of [key, value, keep]
dict_comprehension(keyed) ==
    LET kept == {p \in DOMAIN keyed : keyed[p].keep}
        keys == {keyed[p].key : p \in kept}
    IN  [k \in keys |->
            keyed[CHOOSE p \in kept :
                    /\ keyed[p].key = k
                    /\ \A q \in kept : keyed[q].key = k => q <= p].value]

\* {**a, **b}
dict_merge(a, b) ==
    [k \in DOMAIN a \cup DOMAIN b |-> IF k \in DOMAIN b THEN b[k] ELSE a[k]]

\* get_metrics(reset), the scorer having seen the role tags `tags`
get_metrics(ignore, scorer, tags) ==
    IF ignore
    THEN [raised |-> "none", value |-> EmptyDict]
    ELSE IF scorer = "None"
    THEN [raised |-> "AttributeError", value |-> EmptyDict]
    ELSE LET metric_dict == span_get_metric(tags)
             frame_metric_dict == frame_get_metric
             metric_dict_filtered ==
                 dict_comprehension(
                     [p \in DOMAIN metric_dict |->
                         [key |-> << <<Head(metric_dict[p].name)>>, "_role" >>,
                          value |-> metric_dict[p].value,
                          keep |-> contains_overall(metric_dict[p].name)]])
             frame_renamed ==
                 dict_comprehension(
                     [p \in DOMAIN frame_metric_dict |->
                         [key |-> << frame_metric_dict[p].name, "_frame" >>,
                          value |-> frame_metric_dict[p].value,
                          keep |-> TRUE]])
         IN  [raised |-> "none", value |-> dict_merge(metric_dict_filtered, frame_renamed)]

\* ------------------------------------------------------------ the machine

\* contents of resources/lemma2frame.csv the model is constructed from
ResourceFiles ==
    { << <<"g", " ", "L">>, <<"h", " ", "L", " ", "M">>, <<"b">> >>,
      << <<"g", " ", "M">>, <<"h", " ", "Z">>, <<"g", " ", "L">>, <<"b">> >> }

Lemmas == {<<"g">>, <<"h">>, <<"b">>, <<"x">>}

\* a row of frame_probabilities: softmax outputs, given by their rank (a
\* higher number is a higher probability; no two labels tie)
Rows ==
    {r \in [DOMAIN frames_labels -> DOMAIN frames_labels] :
        \A p, q \in DOMAIN r : r[p] = r[q] => p = q}

\* one lemma and one probability row per predicate of the batch
Batches ==
    UNION {[lemmas : [1..n -> Lemmas], frame_probabilities : [1..n -> Rows]] :
             n \in 0..MaxPreds}

Given == {"None", "given"}

RoleLosses == {2, 6}

FrameLosses == {4}

NoGold == <<"None", "None">>

\* the record of a call: gold is <<tags, frame_tags>> of a forward call, input
\* the role tags the scorer had seen at a get_metrics call, value the metrics
Call(op, raised, gold, input, value) ==
    [op |-> op, raised |-> raised, gold |-> gold, input |-> input, value |-> value]

Init ==
    /\ resource \in ResourceFiles
    /\ rd = read_dictionary(resource)
    /\ lemm_frame_dict = rd.dict
    /\ ignore_span_metric \in BOOLEAN
    /\ span_metric \in {"None", "SrlEvalScorer"}
    /\ training \in BOOLEAN
    /\ span_invoked = FALSE
    /\ batch \in Batches
    /\ output_dict = EmptyDict
    /\ ret = Call("__init__", "none", NoGold, <<>>, EmptyDict)

config == <<resource, rd, ignore_span_metric, span_metric, training, batch>>

Forward ==
    \E tags \in Given, frame_tags \in Given,
       role_loss \in RoleLosses, frame_loss \in FrameLosses :
        LET r == forward(lemm_frame_dict, ignore_span_metric, span_metric, training,
                         span_invoked, batch, tags, frame_tags, role_loss, frame_loss)
        IN  /\ output_dict' = r.output_dict
            /\ lemm_frame_dict' = r.dict
            /\ span_invoked' = r.invoked
            /\ ret' = Call("forward", r.raised, <<tags, frame_tags>>, <<>>, EmptyDict)
            /\ UNCHANGED config

MakeOutputHumanReadable ==
    /\ DOMAIN output_dict # {}
    /\ LET r == make_output_human_readable(lemm_frame_dict, output_dict)
       IN  /\ output_dict' = r.output_dict
           /\ lemm_frame_dict' = r.dict
           /\ ret' = Call("make_output_human_readable", r.raised, NoGold, <<>>, EmptyDict)
    /\ UNCHANGED <<config, span_invoked>>

DecodeFrames ==
    /\ DOMAIN output_dict # {}
    /\ LET r == decode_frames(lemm_frame_dict, output_dict)
       IN  /\ output_dict' = r.output_dict
           /\ lemm_frame_dict' = r.dict
           /\ ret' = Call("decode_frames", r.raised, NoGold, <<>>, EmptyDict)
    /\ UNCHANGED <<config, span_invoked>>

GetMetrics ==
    \E tags \in SUBSET RoleTags :
        LET r == get_metrics(ignore_span_metric, span_metric, tags)
        IN  /\ ret' = Call("get_metrics", r.raised, NoGold, tags, r.value)
            /\ UNCHANGED <<config, lemm_frame_dict, span_invoked, output_dict>>

Next == Forward \/ MakeOutputHumanReadable \/ DecodeFrames \/ GetMetrics

Spec == Init /\ [][Next]_vars

\* ---------------------------------------- read_dictionary as a function

InitRead ==
    /\ resource \in Files
    /\ rd = NotCalled
    /\ lemm_frame_dict = EmptyDict
    /\ ignore_span_metric = FALSE
    /\ span_metric = "None"
    /\ training = FALSE
    /\ span_invoked = FALSE
    /\ batch = [lemmas |-> <<>>, frame_probabilities |-> <<>>]
    /\ output_dict = EmptyDict
    /\ ret = Call("none", "none", NoGold, <<>>, EmptyDict)

ReadDictionary ==
    /\ rd.raised = "pending"
    /\ rd' = read_dictionary(resource)
    /\ ret' = Call("read_dictionary", rd'.raised, NoGold, <<>>, EmptyDict)
    /\ UNCHANGED <<resource, lemm_frame_dict, ignore_span_metric, span_metric, training,
                   span_invoked, batch, output_dict>>

NextRead == ReadDictionary

SpecRead == InitRead /\ [][NextRead]_vars

\* ================================================================ claims

\* --- what the claims speak of

\* the tokens of a line, read off the line: the maximal whitespace-free runs
Runs(l) ==
    {r \in (1..Len(l)) \X (1..Len(l)) :
        /\ r[1] <= r[2]
        /\ \A p \in r[1]..r[2] : l[p] \notin Whitespace
        /\ r[1] = 1 \/ l[r[1] - 1] \in Whitespace
        /\ r[2] = Len(l) \/ l[r[2] + 1] \in Whitespace}

TokensOf(l) ==
    LET R == Runs(l)
    IN  [n \in 1..Cardinality(R) |->
            LET r == CHOOSE r \in R : Cardinality({q \in R : q[1] < r[1]}) = n - 1
            IN  SubSeq(l, r[1], r[2])]

\* the file as its lines' tokens
Tokenized(file) == [i \in DOMAIN file |-> TokensOf(file[i])]

\* every line is "lemma frame1 frame2 ...": it has a lemma
WellFormed(toks) == \A i \in DOMAIN toks : toks[i] # <<>>

\* the frames of the lines from line i on whose lemma is k, in file order
RECURSIVE FramesFor(_, _, _)
FramesFor(toks, k, i) ==
    IF i > Len(toks)
    THEN <<>>
    ELSE (IF Head(toks[i]) = k THEN Tail(toks[i]) ELSE <<>>) \o FramesFor(toks, k, i + 1)

Range(s) == {s[i] : i \in DOMAIN s}

\* the last call was a decoding of the batch's output dictionary that did not
\* stop on a label missing from the vocabulary
Decoded ==
    /\ ret.op \in {"decode_frames", "make_output_human_readable"}
    /\ ret.raised # "KeyError"

\* the candidate list of a lemma in the table
Candidates(l) == IF l \in DOMAIN lemm_frame_dict THEN lemm_frame_dict[l] ELSE <<>>

InVocab(label) == \E p \in DOMAIN frames_labels : frames_labels[p] = label

\* the probability a row gives a label of the vocabulary
Prob(row, label) == row[CHOOSE p \in DOMAIN frames_labels : frames_labels[p] = label]

\* the label with the highest probability among `labels`
Best(row, labels) ==
    CHOOSE c \in labels : \A o \in labels : Prob(row, o) <= Prob(row, c)

HasTag(i) ==
    /\ "frame_tags" \in DOMAIN output_dict
    /\ i \in DOMAIN output_dict["frame_tags"]

Preds == DOMAIN batch.lemmas

\* --- C1: after decode_frames, every predicate whose lemma has candidates
\* carries a frame tag, and that tag is one of the lemma's candidates.
C1_FrameTagAmongCandidates ==
    Decoded =>
        \A i \in Preds :
            Candidates(batch.lemmas[i]) # <<>> =>
                /\ HasTag(i)
                /\ output_dict["frame_tags"][i] \in Range(Candidates(batch.lemmas[i]))

\* --- C2: a forward call given gold tags returns role_loss, frame_loss and
\* loss with loss = (role_loss + frame_loss) / 2; a forward call without
\* tags returns none of the three keys.
LossKeys == {"role_loss", "frame_loss", "loss"}

C2_JointLossAveraged ==
    ret.op = "forward" =>
        /\ ret.gold = <<"given", "given">> =>
              /\ ret.raised = "none"
              /\ LossKeys \subseteq DOMAIN output_dict
              /\ 2 * output_dict["loss"]
                    = output_dict["role_loss"] + output_dict["frame_loss"]
        /\ ret.gold[1] = "None" =>
              /\ ret.raised = "none"
              /\ LossKeys \cap DOMAIN output_dict = {}

\* --- C3: for a file whose every line is "lemma frame1 frame2 ...",
\* read_dictionary returns the dict whose keys are the lemmas of the lines and
\* whose value for a lemma is the frames of that lemma's lines in file order.
C3_ReadDictionaryMapsLemmas ==
    LET toks == Tokenized(resource)
    IN  (rd.raised # "pending" /\ WellFormed(toks)) =>
            /\ rd.raised = "none"
            /\ DOMAIN rd.dict = {Head(toks[i]) : i \in DOMAIN toks}
            /\ \A k \in DOMAIN rd.dict : rd.dict[k] = FramesFor(toks, k, 1)

\* a lemma on two lines, each with one frame and the two frames differing, and
\* the dict returned
C3_Witness ==
    LET toks == Tokenized(resource)
    IN  /\ rd.raised = "none"
        /\ Len(toks) = 2
        /\ WellFormed(toks)
        /\ Head(toks[1]) = Head(toks[2])
        /\ Len(toks[1]) = 2
        /\ Len(toks[2]) = 2
        /\ toks[1][2] # toks[2][2]

\* --- C4: on a model built with srl_eval_path=None and ignore_span_metric
\* False, no forward or get_metrics call invokes the span scorer or
\* dereferences it (an AttributeError on None).
C4_NoSpanScorerWhenPathNone ==
    (span_metric = "None" /\ ~ignore_span_metric) =>
        /\ ~span_invoked
        /\ ret.op \in {"forward", "get_metrics"} => ret.raised # "AttributeError"

\* --- C5: get_metrics returns {} when ignore_span_metric holds; otherwise
\* it returns the scorer's "overall" entries, each under its first part plus
\* "_role", and the frame entries under their name plus "_frame", and
\* nothing else.
OverallNames(tags) ==
    {n \in Range(scorer_names(tags)) : \E p \in DOMAIN n : n[p] = "overall"}

ScorerValue(tags, n) ==
    LET items == span_get_metric(tags)
    IN  items[CHOOSE p \in DOMAIN items : items[p].name = n].value

FrameValue(n) ==
    frame_get_metric[CHOOSE p \in DOMAIN frame_get_metric : frame_get_metric[p].name = n].value

FrameNames == {frame_get_metric[p].name : p \in DOMAIN frame_get_metric}

MetricsAsClaimed(tags, value) ==
    /\ DOMAIN value = {<< <<Head(n)>>, "_role" >> : n \in OverallNames(tags)}
                         \cup {<<n, "_frame">> : n \in FrameNames}
    /\ \A n \in OverallNames(tags) : value[<< <<Head(n)>>, "_role" >>] = ScorerValue(tags, n)
    /\ \A n \in FrameNames : value[<<n, "_frame">>] = FrameValue(n)

C5_MetricsDictionary ==
    ret.op = "get_metrics" =>
        /\ ret.raised = "none"
        /\ IF ignore_span_metric
           THEN DOMAIN ret.value = {}
           ELSE MetricsAsClaimed(ret.input, ret.value)

\* C5 on a model that has a span scorer: there the dictionary is as claimed
C5_MetricsDictionaryWithScorer ==
    (ret.op = "get_metrics" /\ span_metric # "None") =>
        /\ ret.raised = "none"
        /\ IF ignore_span_metric
           THEN DOMAIN ret.value = {}
           ELSE MetricsAsClaimed(ret.input, ret.value)

\* --- C6: after decode_frames, the tag of a predicate whose lemma has
\* candidates is the candidate to which the predicate's row gives the highest
\* probability.
C6_FrameTagIsBestCandidate ==
    Decoded =>
        \A i \in Preds :
            (/\ Candidates(batch.lemmas[i]) # <<>>
             /\ \A c \in Range(Candidates(batch.lemmas[i])) : InVocab(c)) =>
                /\ HasTag(i)
                /\ output_dict["frame_tags"][i]
                     = Best(batch.frame_probabilities[i], Range(Candidates(batch.lemmas[i])))

\* --- C7: decode_frames writes one frame tag per probability row, the i-th
\* decided from the i-th row and the candidates of the i-th lemma.
TagOf(l, row) ==
    IF Candidates(l) # <<>>
    THEN Best(row, Range(Candidates(l)))
    ELSE Best(row, Range(frames_labels))

C7_OneTagPerRowPairedWithLemma ==
    Decoded =>
        /\ "frame_tags" \in DOMAIN output_dict
        /\ Len(output_dict["frame_tags"]) = Len(batch.frame_probabilities)
        /\ \A i \in Preds :
              (\A c \in Range(Candidates(batch.lemmas[i])) : InVocab(c)) =>
                  output_dict["frame_tags"][i]
                    = TagOf(batch.lemmas[i], batch.frame_probabilities[i])

\* --- C8: after decode_frames, the tag of a predicate whose lemma is absent
\* from the table, or has an empty candidate list, is the label to which the
\* predicate's row gives the highest probability over the whole vocabulary.
C8_FallbackIsUnrestricted ==
    Decoded =>
        \A i \in Preds :
            Candidates(batch.lemmas[i]) = <<>> =>
                /\ HasTag(i)
                /\ output_dict["frame_tags"][i]
                     = Best(batch.frame_probabilities[i], Range(frames_labels))

\* --- C9: the table is what read_dictionary returned, whatever forward,
\* decode_frames, make_output_human_readable and get_metrics calls were made:
\* the same keys, and the same list under each key.
C9_TableStatic ==
    /\ DOMAIN lemm_frame_dict = DOMAIN rd.dict
    /\ \A k \in DOMAIN rd.dict : lemm_frame_dict[k] = rd.dict[k]

\* decode_frames has completed on a batch holding a lemma that is not in the table
C9_Witness ==
    /\ ret.op = "decode_frames"
    /\ ret.raised = "none"
    /\ \E i \in Preds : batch.lemmas[i] \notin DOMAIN rd.dict
    /\ DOMAIN rd.dict # {}

====
